---- MODULE Spec2Model ----
(***************************************************************************)
(* RoutineItem priority reordering (backend/apps/daily/models/             *)
(* model_routine.py).  The store is the routine-item table; the callers    *)
(* hold in-memory RoutineItem instances whose pk, routine and priority     *)
(* are what save() and delete() read.                                      *)
(***************************************************************************)
EXTENDS Integers, FiniteSets, Sequences, TLC

\* Python None / SQL NULL (priority is null=True, blank=True).
None == -1

\* ---- bounds of the model ----
NumRoutines == 2
MaxItems == 3
MaxPrio == 3
PrioCap == 4
\* Rows ever inserted while two connections run calls side by side.
RaceMaxItems == 2
\* Calls each of the two connections makes.
RaceCalls == 1

Routines == 1..NumRoutines
Pks == 1..MaxItems
\* Priority values a caller can put on an instance: blank, or a value the
\* PositiveIntegerField accepts (0 included).
PrioInputs == {None} \cup (0..MaxPrio)

VARIABLES
    rows,     \* the committed table: pk -> [routine, priority]
    nextPk,   \* the auto-increment primary key sequence
    held,     \* a RoutineItem instance a caller keeps in memory across other requests
    last,     \* the last recorded save()/delete() call: who made it, the instance
              \* passed, the table before the call, the branch taken
    txn,      \* the call in flight, statement by statement: its position, its
              \* instance, the old_instance it read, its uncommitted table
    con       \* two connections, each with a call in its own transaction: its
              \* position, its instance, the old_instance it read, the rows it
              \* has written and not yet committed, the calls it has begun

vars == <<rows, nextPk, held, last, txn, con>>

\* An instance slot holding no object.
Unbound == [pk |-> None, routine |-> None, priority |-> None]

\* No row stored for a pk.
NoRow == [routine |-> None, priority |-> None]

\* No call in flight.
NoTxn == [pc |-> "idle", op |-> "none", arg |-> Unbound, self |-> Unbound,
          old |-> NoRow, work |-> <<>>, before |-> <<>>]

NoCall == [op |-> "none", by |-> "none", self |-> Unbound, rows |-> <<>>, branch |-> "none"]

\* The two connections.
Conns == {1, 2}

\* A connection that has made no call.
NoCon == [pc |-> "idle", op |-> "none", arg |-> Unbound, self |-> Unbound,
          old |-> NoRow, writes |-> <<>>, n |-> 0]

\* ---- the queryset operations save() and delete() issue ----

\* RoutineItem.objects.filter(routine=r): the pks of routine r.
ItemsOf(rs, r) == {k \in DOMAIN rs : rs[k].routine = r}

\* The priorities held in routine r (NULLs are not values).
PrioritiesOf(rs, r) == {rs[k].priority : k \in {j \in ItemsOf(rs, r) : rs[j].priority # None}}

SetMax(S) == CHOOSE m \in S : \A x \in S : x <= m

\* .aggregate(Max('priority'))['priority__max']: None over no (non-NULL) row.
MaxPriority(rs, r) ==
    IF PrioritiesOf(rs, r) = {} THEN None ELSE SetMax(PrioritiesOf(rs, r))

\* Mutant: the "+ 1" is left out.
NextPriorityNoIncrement(rs, r) ==
    LET max_p == MaxPriority(rs, r)
    IN  IF max_p = None THEN 0 ELSE max_p

\* (max_p or 0) + 1
NextPriority(rs, r) ==
    LET max_p == MaxPriority(rs, r)
    IN  (IF max_p = None \/ max_p = 0 THEN 0 ELSE max_p) + 1

\* Mutant: priority__gt in place of priority__gte.
ShiftFromStrict(rs, r, p) ==
    [k \in DOMAIN rs |->
        IF rs[k].routine = r /\ rs[k].priority # None /\ rs[k].priority > p
        THEN [rs[k] EXCEPT !.priority = @ + 1]
        ELSE rs[k]]

\* filter(routine=r, priority__gte=p).update(priority=F('priority') + 1)
ShiftFrom(rs, r, p) ==
    [k \in DOMAIN rs |->
        IF rs[k].routine = r /\ rs[k].priority # None /\ rs[k].priority >= p
        THEN [rs[k] EXCEPT !.priority = @ + 1]
        ELSE rs[k]]

\* filter(routine=r, priority__gt=p).update(priority=F('priority') - 1)
CloseGap(rs, r, p) ==
    [k \in DOMAIN rs |->
        IF rs[k].routine = r /\ rs[k].priority # None /\ rs[k].priority > p
        THEN [rs[k] EXCEPT !.priority = @ - 1]
        ELSE rs[k]]

\* Mutant: priority__gt in place of priority__gte.
ShiftRangeUpExclusive(rs, r, new, old) ==
    [k \in DOMAIN rs |->
        IF rs[k].routine = r /\ rs[k].priority # None
           /\ rs[k].priority > new /\ rs[k].priority < old
        THEN [rs[k] EXCEPT !.priority = @ + 1]
        ELSE rs[k]]

\* filter(routine=r, priority__gte=new, priority__lt=old).update(priority=F('priority') + 1)
ShiftRangeUp(rs, r, new, old) ==
    [k \in DOMAIN rs |->
        IF rs[k].routine = r /\ rs[k].priority # None
           /\ rs[k].priority >= new /\ rs[k].priority < old
        THEN [rs[k] EXCEPT !.priority = @ + 1]
        ELSE rs[k]]

\* Mutant: priority__lt in place of priority__lte.
ShiftRangeDownExclusive(rs, r, old, new) ==
    [k \in DOMAIN rs |->
        IF rs[k].routine = r /\ rs[k].priority # None
           /\ rs[k].priority > old /\ rs[k].priority < new
        THEN [rs[k] EXCEPT !.priority = @ - 1]
        ELSE rs[k]]

\* filter(routine=r, priority__gt=old, priority__lte=new).update(priority=F('priority') - 1)
ShiftRangeDown(rs, r, old, new) ==
    [k \in DOMAIN rs |->
        IF rs[k].routine = r /\ rs[k].priority # None
           /\ rs[k].priority > old /\ rs[k].priority <= new
        THEN [rs[k] EXCEPT !.priority = @ - 1]
        ELSE rs[k]]

\* super().save(): UPDATE the row of this pk, INSERT it when there is none.
WriteRow(rs, k, r, p) ==
    [j \in DOMAIN rs \cup {k} |->
        IF j = k THEN [routine |-> r, priority |-> p] ELSE rs[j]]

\* super().delete(): DELETE the row of this pk (no row: nothing deleted).
DeleteRow(rs, k) == [j \in DOMAIN rs \ {k} |-> rs[j]]

\* ---- RoutineItem.save ----

\* pk is None: the create branch.  The result is the table, the instance
\* and the branch taken.
SaveCreate(rs, npk, self) ==
    IF self.priority = None
    THEN LET p == NextPriority(rs, self.routine)
         IN  [rows |-> WriteRow(rs, npk, self.routine, p),
              self |-> [pk |-> npk, routine |-> self.routine, priority |-> p],
              branch |-> "append"]
    ELSE [rows |-> WriteRow(ShiftFrom(rs, self.routine, self.priority),
                            npk, self.routine, self.priority),
          self |-> [self EXCEPT !.pk = npk],
          branch |-> "insert"]

\* Mutant: Step A (closing the gap in the old routine) is left out.
SaveMoveRoutineKeepGap(rs, self, old) ==
    IF self.priority = None
    THEN LET p == NextPriority(rs, self.routine)
         IN  [rows |-> WriteRow(rs, self.pk, self.routine, p),
              self |-> [self EXCEPT !.priority = p],
              branch |-> "move_append"]
    ELSE [rows |-> WriteRow(ShiftFrom(rs, self.routine, self.priority),
                            self.pk, self.routine, self.priority),
          self |-> self,
          branch |-> "move_insert"]

\* old_instance.routine != self.routine
SaveMoveRoutine(rs, self, old) ==
    IF old.priority = None
    THEN \* priority__gt=None: the filter raises, the atomic block rolls back
         [rows |-> rs, self |-> self, branch |-> "raise"]
    ELSE LET closed == CloseGap(rs, old.routine, old.priority)
         IN  IF self.priority = None
             THEN LET p == NextPriority(closed, self.routine)
                  IN  [rows |-> WriteRow(closed, self.pk, self.routine, p),
                       self |-> [self EXCEPT !.priority = p],
                       branch |-> "move_append"]
             ELSE [rows |-> WriteRow(ShiftFrom(closed, self.routine, self.priority),
                                     self.pk, self.routine, self.priority),
                   self |-> self,
                   branch |-> "move_insert"]

\* old_instance.routine == self.routine and old_instance.priority != self.priority
SaveReorder(rs, self, old) ==
    LET p == IF self.priority = None
             THEN NextPriority(rs, self.routine)
             ELSE self.priority
    IN  IF old.priority = None
        THEN \* self.priority < None: TypeError, the atomic block rolls back
             [rows |-> rs, self |-> self, branch |-> "raise"]
        ELSE IF p < old.priority
        THEN [rows |-> WriteRow(ShiftRangeUp(rs, self.routine, p, old.priority),
                                self.pk, self.routine, p),
              self |-> [self EXCEPT !.priority = p],
              branch |-> "reorder_up"]
        ELSE [rows |-> WriteRow(ShiftRangeDown(rs, self.routine, old.priority, p),
                                self.pk, self.routine, p),
              self |-> [self EXCEPT !.priority = p],
              branch |-> "reorder_down"]

\* Mutant: a missing row is handled as an insert at the given priority,
\* shifting the routine's items, instead of the plain row write.
SaveUpdateShiftOnMissing(rs, self) ==
    IF self.pk \notin DOMAIN rs
    THEN [rows |-> WriteRow(IF self.priority = None THEN rs
                            ELSE ShiftFrom(rs, self.routine, self.priority),
                            self.pk, self.routine, self.priority),
          self |-> self, branch |-> "fallback"]
    ELSE LET old == rs[self.pk]
         IN  IF old.routine # self.routine THEN SaveMoveRoutine(rs, self, old)
             ELSE IF old.priority # self.priority THEN SaveReorder(rs, self, old)
             ELSE [rows |-> WriteRow(rs, self.pk, self.routine, self.priority),
                   self |-> self, branch |-> "plain"]

\* Mutant: with routine and priority unchanged the item is placed again by
\* the insert rule, shifting the items at and after its priority.
SaveUpdateReinsert(rs, self) ==
    IF self.pk \notin DOMAIN rs
    THEN [rows |-> WriteRow(rs, self.pk, self.routine, self.priority),
          self |-> self, branch |-> "fallback"]
    ELSE LET old == rs[self.pk]
         IN  IF old.routine # self.routine THEN SaveMoveRoutine(rs, self, old)
             ELSE IF old.priority # self.priority THEN SaveReorder(rs, self, old)
             ELSE [rows |-> WriteRow(ShiftFrom(rs, self.routine, self.priority),
                                     self.pk, self.routine, self.priority),
                   self |-> self, branch |-> "plain"]

\* pk is set: the update branch.
SaveUpdate(rs, self) ==
    IF self.pk \notin DOMAIN rs
    THEN \* RoutineItem.DoesNotExist: plain row write
         [rows |-> WriteRow(rs, self.pk, self.routine, self.priority),
          self |-> self, branch |-> "fallback"]
    ELSE LET old == rs[self.pk]
         IN  IF old.routine # self.routine THEN SaveMoveRoutine(rs, self, old)
             ELSE IF old.priority # self.priority THEN SaveReorder(rs, self, old)
             ELSE [rows |-> WriteRow(rs, self.pk, self.routine, self.priority),
                   self |-> self, branch |-> "plain"]

save(rs, npk, self) ==
    IF self.pk = None THEN SaveCreate(rs, npk, self) ELSE SaveUpdate(rs, self)

\* ---- RoutineItem.delete ----

\* Mutant: the row is deleted and the gap is left open.
deleteKeepGap(rs, self) ==
    [rows |-> DeleteRow(rs, self.pk),
     self |-> [self EXCEPT !.pk = None],
     branch |-> "delete"]

\* The result is the table, the instance and the branch taken.
delete(rs, self) ==
    IF self.priority = None
    THEN \* priority__gt=None raises after the row delete: rolled back
         [rows |-> rs, self |-> [self EXCEPT !.pk = None], branch |-> "raise"]
    ELSE [rows |-> CloseGap(DeleteRow(rs, self.pk), self.routine, self.priority),
          self |-> [self EXCEPT !.pk = None],
          branch |-> "delete"]

\* ---- the state machine ----

\* Stored priorities stay within the model's range.
InRange(rs) == \A k \in DOMAIN rs : rs[k].priority <= PrioCap

\* RoutineItem.objects.get(pk=k)
Get(rs, k) == [pk |-> k, routine |-> rs[k].routine, priority |-> rs[k].priority]

\* What `last` keeps of a call.  The calls of sibling requests that run while
\* an instance is kept in memory are not recorded.
Record(op, by, self, branch) ==
    IF by = "sibling" THEN NoCall
    ELSE [op |-> op, by |-> by, self |-> self, rows |-> rows, branch |-> branch]

Init ==
    /\ rows = <<>>
    /\ nextPk = 1
    /\ held = Unbound
    /\ last = NoCall
    /\ txn = NoTxn
    /\ con = [t \in Conns |-> NoCon]

\* A call of self.save(): by a request on the instance it made or loaded
\* ("request", "sibling"), or on the kept instance ("held").
CallSave(by, self) ==
    LET res == save(rows, nextPk, self)
    IN  /\ self.pk = None => nextPk <= MaxItems
        /\ InRange(res.rows)
        /\ rows' = res.rows
        /\ nextPk' = IF self.pk = None THEN nextPk + 1 ELSE nextPk
        /\ held' = IF by = "held" THEN res.self ELSE held
        /\ last' = Record("save", by, self, res.branch)
        /\ UNCHANGED <<txn, con>>

\* A call of self.delete().
CallDelete(by, self) ==
    LET res == delete(rows, self)
    IN  /\ rows' = res.rows
        /\ held' = IF by = "held" THEN res.self ELSE held
        /\ last' = Record("delete", by, self, res.branch)
        /\ UNCHANGED <<nextPk, txn, con>>

\* A request: RoutineItem(routine=r, priority=p).save()
Create(by, r, p) == CallSave(by, [pk |-> None, routine |-> r, priority |-> p])

\* A request: item = get(pk=k); item.routine = r; item.priority = p; item.save()
Update(by, k, r, p) ==
    /\ k \in DOMAIN rows
    /\ CallSave(by, [pk |-> k, routine |-> r, priority |-> p])

\* A request: get(pk=k).delete()
Remove(by, k) ==
    /\ k \in DOMAIN rows
    /\ CallDelete(by, Get(rows, k))

\* held = get(pk=k): the instance is kept while sibling requests run.
Load(k) ==
    /\ k \in DOMAIN rows
    /\ held' = Get(rows, k)
    /\ last' = NoCall
    /\ UNCHANGED <<rows, nextPk, txn, con>>

\* held.routine = r; held.priority = p; held.save()  (r, p may be the values it holds)
SaveHeld(r, p) ==
    /\ held.routine # None
    /\ CallSave("held", [held EXCEPT !.routine = r, !.priority = p])

\* held.delete()
DeleteHeld ==
    /\ held.pk # None
    /\ CallDelete("held", held)

\* Requests that each load the instance they act on.
Next ==
    \/ \E r \in Routines, p \in PrioInputs : Create("request", r, p)
    \/ \E k \in Pks, r \in Routines, p \in PrioInputs : Update("request", k, r, p)
    \/ \E k \in Pks : Remove("request", k)

Spec == Init /\ [][Next]_vars

\* The record of the last call is dropped: `last` is only a record, so this
\* changes nothing of the program's state.
Forget ==
    /\ last # NoCall
    /\ last' = NoCall
    /\ UNCHANGED <<rows, nextPk, held, txn, con>>

\* One instance kept in memory across sibling requests.  A recorded call is
\* followed by Forget before the next call, which keeps one copy of every
\* state of the program.
NextHeld ==
    \/ \E r \in Routines, p \in PrioInputs :
           last = NoCall /\ Create("sibling", r, p)
    \/ \E k \in Pks, r \in Routines, p \in PrioInputs :
           last = NoCall /\ Update("sibling", k, r, p)
    \/ \E k \in Pks : last = NoCall /\ Remove("sibling", k)
    \/ \E k \in Pks : last = NoCall /\ Load(k)
    \/ \E r \in Routines, p \in PrioInputs : last = NoCall /\ SaveHeld(r, p)
    \/ last = NoCall /\ DeleteHeld
    \/ Forget

SpecHeld == Init /\ [][NextHeld]_vars

\* ---- save() and delete() statement by statement ----

\* Mutant: no atomic block, every statement commits as it runs.
Autocommit == FALSE

\* with transaction.atomic(): the statements of the block are committed
\* together when the block exits, and rolled back when it raises.
Atomic == TRUE

\* The position after the statement at pc has run on table w.
\* A statement's writes reach the committed table at once only outside an
\* atomic block.
Advance(pc, self, old, w) ==
    /\ txn' = [txn EXCEPT !.pc = pc, !.self = self, !.old = old, !.work = w]
    /\ rows' = IF Atomic THEN rows ELSE w
    /\ UNCHANGED <<nextPk, held, last, con>>

\* The call in flight is a save() / a delete() inside its atomic block.
InBlock == txn.pc \notin {"idle", "failed"}

\* Entering save() with instance self (any pk the sequence has given out).
EnterSave(self) ==
    /\ txn.pc = "idle"
    /\ self.pk = None => nextPk <= MaxItems
    /\ InRange(save(rows, nextPk, self).rows)
    /\ txn' = [pc |-> IF self.pk = None THEN "create" ELSE "get_old",
               op |-> "save", arg |-> self, self |-> self, old |-> NoRow,
               work |-> rows, before |-> rows]
    /\ UNCHANGED <<rows, nextPk, held, last, con>>

\* Entering delete() with a loaded instance: current_priority and
\* current_routine are taken from it.
EnterDelete(k) ==
    /\ txn.pc = "idle"
    /\ k \in DOMAIN rows
    /\ txn' = [pc |-> "delete_row", op |-> "delete", arg |-> Get(rows, k),
               self |-> Get(rows, k), old |-> NoRow, work |-> rows, before |-> rows]
    /\ UNCHANGED <<rows, nextPk, held, last, con>>

\* old_instance = RoutineItem.objects.get(pk=self.pk), and the branch it selects.
GetOld ==
    /\ txn.pc = "get_old"
    /\ LET self == txn.self
           w == txn.work
       IN  IF self.pk \notin DOMAIN w
           THEN Advance("fallback", self, NoRow, w)
           ELSE LET old == w[self.pk]
                IN  IF old.routine # self.routine
                    THEN Advance("close_old", self, old, w)
                    ELSE IF old.priority # self.priority
                    THEN Advance(IF self.priority = None THEN "max_reorder" ELSE "reorder",
                                 self, old, w)
                    ELSE Advance("write", self, old, w)

\* max_p = ...aggregate(Max('priority')); self.priority = (max_p or 0) + 1
ReadMax ==
    LET self == txn.self
        w == txn.work
        p == NextPriority(w, self.routine)
    IN  \/ /\ txn.pc = "create" /\ self.priority = None
           /\ Advance("write", [self EXCEPT !.priority = p], txn.old, w)
        \/ /\ txn.pc = "place" /\ self.priority = None
           /\ Advance("write", [self EXCEPT !.priority = p], txn.old, w)
        \/ /\ txn.pc = "max_reorder"
           /\ Advance("reorder", [self EXCEPT !.priority = p], txn.old, w)

\* One bulk .update(priority=F('priority') +- 1).
BulkShift ==
    LET self == txn.self
        old == txn.old
        w == txn.work
    IN  \/ /\ txn.pc = "create" /\ self.priority # None
           /\ Advance("write", self, old, ShiftFrom(w, self.routine, self.priority))
        \/ /\ txn.pc = "close_old" /\ old.priority # None
           /\ Advance("place", self, old, CloseGap(w, old.routine, old.priority))
        \/ /\ txn.pc = "place" /\ self.priority # None
           /\ Advance("write", self, old, ShiftFrom(w, self.routine, self.priority))
        \/ /\ txn.pc = "reorder" /\ old.priority # None /\ self.priority < old.priority
           /\ Advance("write", self, old,
                      ShiftRangeUp(w, self.routine, self.priority, old.priority))
        \/ /\ txn.pc = "reorder" /\ old.priority # None /\ self.priority >= old.priority
           /\ Advance("write", self, old,
                      ShiftRangeDown(w, self.routine, old.priority, self.priority))
        \/ /\ txn.pc = "close_gap" /\ self.priority # None
           /\ Advance("exit", self, old, CloseGap(w, self.routine, self.priority))

\* super().save(*args, **kwargs)
RowWrite ==
    /\ txn.pc \in {"write", "fallback"}
    /\ LET self == txn.self
           k == IF self.pk = None THEN nextPk ELSE self.pk
       IN  Advance("exit", self, txn.old,
                   WriteRow(txn.work, k, self.routine, self.priority))

\* super().delete(*args, **kwargs)
RowDelete ==
    /\ txn.pc = "delete_row"
    /\ Advance("close_gap", txn.self, txn.old, DeleteRow(txn.work, txn.self.pk))

\* The block raises: a filter on None, a comparison with None, or a failure
\* of the store at the statement about to run.  The block is rolled back.
Raise ==
    /\ InBlock
    /\ txn' = [txn EXCEPT !.pc = "failed"]
    /\ UNCHANGED <<rows, nextPk, held, last, con>>

\* The exception reaches the caller.
Propagate ==
    /\ txn.pc = "failed"
    /\ txn' = NoTxn
    /\ UNCHANGED <<rows, nextPk, held, last, con>>

\* The block exits: commit.
Exit ==
    /\ txn.pc = "exit"
    /\ rows' = txn.work
    /\ nextPk' = IF txn.arg.pk = None THEN nextPk + 1 ELSE nextPk
    /\ txn' = NoTxn
    /\ UNCHANGED <<held, last, con>>

NextTxn ==
    \/ \E k \in {None} \cup 1..(nextPk - 1), r \in Routines, p \in PrioInputs :
           EnterSave([pk |-> k, routine |-> r, priority |-> p])
    \/ \E k \in Pks : EnterDelete(k)
    \/ GetOld
    \/ ReadMax
    \/ BulkShift
    \/ RowWrite
    \/ RowDelete
    \/ Raise
    \/ Propagate
    \/ Exit

SpecTxn == Init /\ [][NextTxn]_vars

\* ---- two calls in flight on two connections ----

\* Priority values the callers on the two connections put on an instance:
\* blank, or a position among the rows there can be.
RacePrioInputs == {None} \cup (1..RaceMaxItems)

\* Stored priorities stay within the range of the two-connection model.
RaceInRange(rs) == \A k \in DOMAIN rs : rs[k].priority <= RaceMaxItems + 1

\* The other connection.
Other(t) == CHOOSE u \in Conns : u # t

\* Table rs under the uncommitted writes w (NoRow: the row is deleted).
Overlay(rs, w) ==
    [k \in (DOMAIN rs \cup DOMAIN w) \ {j \in DOMAIN w : w[j] = NoRow} |->
        IF k \in DOMAIN w THEN w[k] ELSE rs[k]]

\* What the statements of connection t read: the committed rows and the
\* connection's own writes.  The writes of the other connection are not seen
\* before it commits.
View(t) == Overlay(rows, con[t].writes)

\* The rows a statement taking table a to table b has written.
Written(a, b) ==
    {k \in DOMAIN a \cup DOMAIN b : k \notin DOMAIN a \/ k \notin DOMAIN b \/ a[k] # b[k]}

\* Connection t runs one statement: it moves to pc with instance self and
\* old_instance old, and the statement writes the rows ks, taking its view
\* to v.  A statement waits while the other connection holds an uncommitted
\* write on a row it writes.
Run(t, pc, self, old, v, ks) ==
    /\ ks \cap DOMAIN con[Other(t)].writes = {}
    /\ RaceInRange(v)
    /\ con' = [con EXCEPT ![t] =
                  [pc |-> pc, op |-> con[t].op, arg |-> con[t].arg,
                   self |-> self, old |-> old,
                   writes |-> [k \in DOMAIN con[t].writes \cup ks |->
                                  IF k \in DOMAIN v THEN v[k] ELSE NoRow],
                   n |-> con[t].n]]
    /\ UNCHANGED <<rows, held, last, txn>>

\* Connection t enters save() with a new instance or one it has just loaded.
RaceEnterSave(t, self) ==
    /\ con[t].pc \in {"idle", "done"}
    /\ con[t].n < RaceCalls
    /\ self.pk = None => nextPk <= RaceMaxItems
    /\ self.pk # None => self.pk \in DOMAIN rows
    /\ con' = [con EXCEPT ![t] =
                  [pc |-> IF self.pk = None THEN "create" ELSE "get_old",
                   op |-> "save", arg |-> self, self |-> self, old |-> NoRow,
                   writes |-> <<>>, n |-> con[t].n + 1]]
    /\ UNCHANGED <<rows, nextPk, held, last, txn>>

\* Connection t enters delete() with an instance it has just loaded.
RaceEnterDelete(t, k) ==
    /\ con[t].pc \in {"idle", "done"}
    /\ con[t].n < RaceCalls
    /\ k \in DOMAIN rows
    /\ con' = [con EXCEPT ![t] =
                  [pc |-> "delete_row", op |-> "delete", arg |-> Get(rows, k),
                   self |-> Get(rows, k), old |-> NoRow, writes |-> <<>>,
                   n |-> con[t].n + 1]]
    /\ UNCHANGED <<rows, nextPk, held, last, txn>>

\* old_instance = RoutineItem.objects.get(pk=self.pk), and the branch it selects.
RaceGetOld(t) ==
    /\ con[t].pc = "get_old"
    /\ LET self == con[t].self
           v == View(t)
       IN  IF self.pk \notin DOMAIN v
           THEN Run(t, "fallback", self, NoRow, v, {})
           ELSE LET old == v[self.pk]
                IN  IF old.routine # self.routine
                    THEN Run(t, "close_old", self, old, v, {})
                    ELSE IF old.priority # self.priority
                    THEN Run(t, IF self.priority = None THEN "max_reorder" ELSE "reorder",
                             self, old, v, {})
                    ELSE Run(t, "write", self, old, v, {})
    /\ UNCHANGED nextPk

\* Mutant: the read of the maximum takes a lock on the routine
\* (select_for_update) that a call in flight on the other connection holds
\* until it commits.
RaceReadMaxLocked(t) ==
    LET self == con[t].self
        p == NextPriority(View(t), self.routine)
    IN  /\ \/ con[Other(t)].pc = "idle"
           \/ con[Other(t)].self.routine # self.routine
        /\ \/ /\ con[t].pc = "create" /\ self.priority = None
              /\ Run(t, "write", [self EXCEPT !.priority = p], con[t].old, View(t), {})
           \/ /\ con[t].pc = "place" /\ self.priority = None
              /\ Run(t, "write", [self EXCEPT !.priority = p], con[t].old, View(t), {})
           \/ /\ con[t].pc = "max_reorder"
              /\ Run(t, "reorder", [self EXCEPT !.priority = p], con[t].old, View(t), {})
        /\ UNCHANGED nextPk

\* max_p = ...aggregate(Max('priority')); self.priority = (max_p or 0) + 1
\* No lock is taken on the routine or its rows.
RaceReadMax(t) ==
    LET self == con[t].self
        p == NextPriority(View(t), self.routine)
    IN  /\ \/ /\ con[t].pc = "create" /\ self.priority = None
              /\ Run(t, "write", [self EXCEPT !.priority = p], con[t].old, View(t), {})
           \/ /\ con[t].pc = "place" /\ self.priority = None
              /\ Run(t, "write", [self EXCEPT !.priority = p], con[t].old, View(t), {})
           \/ /\ con[t].pc = "max_reorder"
              /\ Run(t, "reorder", [self EXCEPT !.priority = p], con[t].old, View(t), {})
        /\ UNCHANGED nextPk

\* The bulk update taking the view of connection t to v.
RunShift(t, pc, v) ==
    Run(t, pc, con[t].self, con[t].old, v, Written(View(t), v))

\* One bulk .update(priority=F('priority') +- 1).
RaceBulkShift(t) ==
    LET self == con[t].self
        old == con[t].old
        v == View(t)
    IN  /\ \/ /\ con[t].pc = "create" /\ self.priority # None
              /\ RunShift(t, "write", ShiftFrom(v, self.routine, self.priority))
           \/ /\ con[t].pc = "close_old" /\ old.priority # None
              /\ RunShift(t, "place", CloseGap(v, old.routine, old.priority))
           \/ /\ con[t].pc = "place" /\ self.priority # None
              /\ RunShift(t, "write", ShiftFrom(v, self.routine, self.priority))
           \/ /\ con[t].pc = "reorder" /\ old.priority # None
              /\ self.priority < old.priority
              /\ RunShift(t, "write",
                          ShiftRangeUp(v, self.routine, self.priority, old.priority))
           \/ /\ con[t].pc = "reorder" /\ old.priority # None
              /\ self.priority >= old.priority
              /\ RunShift(t, "write",
                          ShiftRangeDown(v, self.routine, old.priority, self.priority))
           \/ /\ con[t].pc = "close_gap" /\ self.priority # None
              /\ RunShift(t, "exit", CloseGap(v, self.routine, self.priority))
        /\ UNCHANGED nextPk

\* super().save(*args, **kwargs): the INSERT takes the next pk of the sequence.
RaceRowWrite(t) ==
    /\ con[t].pc \in {"write", "fallback"}
    /\ LET self == con[t].self
           k == IF self.pk = None THEN nextPk ELSE self.pk
       IN  /\ k <= RaceMaxItems
           /\ Run(t, "exit", [self EXCEPT !.pk = k], con[t].old,
                  WriteRow(View(t), k, self.routine, self.priority), {k})
           /\ nextPk' = IF self.pk = None THEN nextPk + 1 ELSE nextPk

\* super().delete(*args, **kwargs)
RaceRowDelete(t) ==
    /\ con[t].pc = "delete_row"
    /\ Run(t, "close_gap", con[t].self, con[t].old,
           DeleteRow(View(t), con[t].self.pk), {con[t].self.pk} \cap DOMAIN View(t))
    /\ UNCHANGED nextPk

\* The block raises (a filter on None, a comparison with None, a failure of
\* the store) and the transaction is rolled back.
RaceAbort(t) ==
    /\ con[t].pc \notin {"idle", "done"}
    /\ con' = [con EXCEPT ![t] = [NoCon EXCEPT !.n = con[t].n]]
    /\ UNCHANGED <<rows, nextPk, held, last, txn>>

\* The block exits: the writes of connection t are committed.  The
\* connection keeps the instance of the call it has finished.
RaceExit(t) ==
    /\ con[t].pc = "exit"
    /\ rows' = Overlay(rows, con[t].writes)
    /\ con' = [con EXCEPT ![t] = [@ EXCEPT !.pc = "done", !.writes = <<>>]]
    /\ UNCHANGED <<nextPk, held, last, txn>>

\* The requests served one at a time before the two connections start.
RacePrepare ==
    /\ \A t \in Conns : con[t].n = 0
    /\ \/ \E r \in Routines, p \in RacePrioInputs :
              nextPk <= RaceMaxItems /\ Create("sibling", r, p)
       \/ \E k \in Pks, r \in Routines, p \in RacePrioInputs :
              Update("sibling", k, r, p)
       \/ \E k \in Pks : Remove("sibling", k)
    /\ RaceInRange(rows')

NextRace ==
    \/ RacePrepare
    \/ \E t \in Conns, k \in {None} \cup Pks, r \in Routines, p \in RacePrioInputs :
           RaceEnterSave(t, [pk |-> k, routine |-> r, priority |-> p])
    \/ \E t \in Conns, k \in Pks : RaceEnterDelete(t, k)
    \/ \E t \in Conns : RaceGetOld(t)
    \/ \E t \in Conns : RaceReadMax(t)
    \/ \E t \in Conns : RaceBulkShift(t)
    \/ \E t \in Conns : RaceRowWrite(t)
    \/ \E t \in Conns : RaceRowDelete(t)
    \/ \E t \in Conns : RaceAbort(t)
    \/ \E t \in Conns : RaceExit(t)

SpecRace == Init /\ [][NextRace]_vars

\* ---- what the claims speak of ----

Count(rs, r) == Cardinality(ItemsOf(rs, r))

\* Routine r holds every priority 1..count(r), each once.
Dense(rs, r) ==
    /\ \A k \in ItemsOf(rs, r) : rs[k].priority # None
    /\ PrioritiesOf(rs, r) = 1..Count(rs, r)

\* No two items of routine r hold the same priority.
Unique(rs, r) ==
    \A j, k \in ItemsOf(rs, r) :
        (j # k /\ rs[j].priority # None) => rs[j].priority # rs[k].priority

\* The items of S keep their relative order from table a to table b.
SameOrder(a, b, S) ==
    \A j, k \in S : a[j].priority < a[k].priority => b[j].priority < b[k].priority

\* The recorded call is a save() that created a row.
IsCreate(c) == c.op = "save" /\ c.self.pk = None

\* The recorded call is a save() of an item stored in another routine.
IsRoutineMove(c) ==
    /\ c.op = "save"
    /\ c.self.pk \in DOMAIN c.rows
    /\ c.rows[c.self.pk].routine # c.self.routine

\* The recorded call is a save() that moves an item of a dense routine 1..N
\* to another priority of 1..N of the same routine.
IsReorder(c) ==
    /\ c.op = "save"
    /\ c.self.pk \in DOMAIN c.rows
    /\ c.rows[c.self.pk].routine = c.self.routine
    /\ Dense(c.rows, c.self.routine)
    /\ c.self.priority \in 1..Count(c.rows, c.self.routine)
    /\ c.self.priority # c.rows[c.self.pk].priority

\* The recorded call is a delete() of a stored item by an instance that holds
\* the stored routine and priority.
IsDelete(c) ==
    /\ c.op = "delete"
    /\ c.self.pk \in DOMAIN c.rows
    /\ c.rows[c.self.pk].routine = c.self.routine
    /\ c.rows[c.self.pk].priority = c.self.priority

\* ---- C1 ----
\* C1: after any sequence of save and delete calls, every routine holds
\* exactly the priorities 1..count(R).
C1_DensityInvariant == \A r \in Routines : Dense(rows, r)

\* ---- C2 ----
\* C2: after any sequence of save and delete calls, no two items of one
\* routine hold the same priority.
C2_UniquePriorities == \A r \in Routines : Unique(rows, r)

\* ---- C3 ----
\* C3: every stored item has a non-null priority of at least 1.
C3_PositivePriority ==
    \A k \in DOMAIN rows : rows[k].priority # None /\ rows[k].priority >= 1

\* ---- C4 ----
\* C4: a create with no priority stores the item at the routine's maximum
\* priority + 1 (1 in an empty routine) and changes no existing item.
C4_AppendOnAbsentPriority ==
    (IsCreate(last) /\ last.self.priority = None) =>
        LET pre == last.rows
            R == last.self.routine
            X == nextPk - 1
        IN  /\ DOMAIN rows = DOMAIN pre \cup {X}
            /\ X \notin DOMAIN pre
            /\ rows[X].routine = R
            /\ rows[X].priority =
                   IF ItemsOf(pre, R) = {} THEN 1
                   ELSE SetMax({pre[k].priority : k \in ItemsOf(pre, R)}) + 1
            /\ \A k \in DOMAIN pre : rows[k] = pre[k]

C4_Witness ==
    /\ IsCreate(last) /\ last.self.priority = None
    /\ Count(last.rows, last.self.routine) = 2
    /\ rows[nextPk - 1].priority = 3

\* ---- C5 ----
\* C5: a create at explicit priority P in a routine holding 1..N, 1 <= P <= N,
\* stores the item at P, adds 1 to every item formerly at >= P, leaves the
\* others, and the routine holds 1..N+1.
C5_InsertShiftsTail ==
    LET pre == last.rows
        R == last.self.routine
        P == last.self.priority
        X == nextPk - 1
    IN  (/\ IsCreate(last)
         /\ P # None
         /\ Dense(pre, R)
         /\ 1 <= P /\ P <= Count(pre, R)) =>
            /\ DOMAIN rows = DOMAIN pre \cup {X}
            /\ X \notin DOMAIN pre
            /\ rows[X] = [routine |-> R, priority |-> P]
            /\ \A k \in DOMAIN pre :
                /\ rows[k].routine = pre[k].routine
                /\ rows[k].priority =
                       IF pre[k].routine = R /\ pre[k].priority >= P
                       THEN pre[k].priority + 1
                       ELSE pre[k].priority
            /\ PrioritiesOf(rows, R) = 1..(Count(pre, R) + 1)
            /\ Count(rows, R) = Count(pre, R) + 1

C5_Witness ==
    /\ IsCreate(last)
    /\ last.self.priority = 2
    /\ Dense(last.rows, last.self.routine)
    /\ Count(last.rows, last.self.routine) = 2
    /\ rows[nextPk - 1].priority = 2

\* ---- C6 ----
\* C6: deleting the item at priority p of a routine holding 1..N leaves the
\* other items at 1..N-1: those below p unchanged, those above p less 1,
\* their relative order kept.
C6_DeleteCompacts ==
    LET pre == last.rows
        X == last.self.pk
        R == last.self.routine
        p == last.self.priority
    IN  (IsDelete(last) /\ Dense(pre, R)) =>
            /\ DOMAIN rows = DOMAIN pre \ {X}
            /\ \A k \in DOMAIN rows :
                /\ rows[k].routine = pre[k].routine
                /\ rows[k].priority =
                       IF pre[k].routine = R /\ pre[k].priority > p
                       THEN pre[k].priority - 1
                       ELSE pre[k].priority
            /\ PrioritiesOf(rows, R) = 1..(Count(pre, R) - 1)
            /\ Count(rows, R) = Count(pre, R) - 1
            /\ SameOrder(pre, rows, ItemsOf(rows, R))

C6_Witness ==
    /\ IsDelete(last)
    /\ Dense(last.rows, last.self.routine)
    /\ Count(last.rows, last.self.routine) = 3
    /\ last.self.priority = 2
    /\ Count(rows, last.self.routine) = 2

\* ---- C7 ----
\* C7: moving X from dense routine R1 to another routine R2 leaves R1's other
\* items at 1..count(R1)-1 in their order, and places X in R2 by the insert
\* rule: at explicit P with every R2 item formerly at >= P plus 1, or, with
\* no priority, at max(R2)+1 (1 if R2 is empty) with no R2 item changed.
C7_RoutineMove ==
    LET pre == last.rows
        X == last.self.pk
        R1 == pre[X].routine
        p == pre[X].priority
        R2 == last.self.routine
        P == last.self.priority
    IN  (IsRoutineMove(last) /\ Dense(pre, R1)) =>
            /\ DOMAIN rows = DOMAIN pre
            /\ ItemsOf(rows, R1) = ItemsOf(pre, R1) \ {X}
            /\ \A k \in ItemsOf(rows, R1) :
                   rows[k].priority =
                       IF pre[k].priority > p THEN pre[k].priority - 1
                       ELSE pre[k].priority
            /\ PrioritiesOf(rows, R1) = 1..(Count(pre, R1) - 1)
            /\ SameOrder(pre, rows, ItemsOf(rows, R1))
            /\ ItemsOf(rows, R2) = ItemsOf(pre, R2) \cup {X}
            /\ IF P # None
               THEN /\ rows[X].priority = P
                    /\ \A k \in ItemsOf(pre, R2) :
                           rows[k].priority =
                               IF pre[k].priority >= P THEN pre[k].priority + 1
                               ELSE pre[k].priority
               ELSE /\ rows[X].priority =
                           IF ItemsOf(pre, R2) = {} THEN 1
                           ELSE SetMax({pre[k].priority : k \in ItemsOf(pre, R2)}) + 1
                    /\ \A k \in ItemsOf(pre, R2) : rows[k] = pre[k]
            /\ \A k \in DOMAIN pre :
                   pre[k].routine \notin {R1, R2} => rows[k] = pre[k]

C7_Witness ==
    /\ IsRoutineMove(last)
    /\ Dense(last.rows, last.rows[last.self.pk].routine)
    /\ Count(last.rows, last.rows[last.self.pk].routine) = 2
    /\ last.rows[last.self.pk].priority = 1
    /\ Count(last.rows, last.self.routine) = 1
    /\ last.self.priority = 1
    /\ Count(rows, last.self.routine) = 2

\* ---- C8 ----
\* C8: in a routine holding 1..N, a same-routine move of an item from A to B
\* followed by its move back from B to A restores every item's priority.
C8_RoundTrip ==
    [][(/\ IsReorder(last)
        /\ last'.op = "save"
        /\ last'.self.pk = last.self.pk
        /\ last'.self.routine = last.self.routine
        /\ last'.self.priority = last.rows[last.self.pk].priority)
       => rows' = last.rows]_vars

C8_Witness ==
    /\ IsReorder(last)
    /\ Count(last.rows, last.self.routine) = 3
    /\ last.rows[last.self.pk].priority = 3
    /\ last.self.priority = 1
    /\ rows[last.self.pk].priority = 1

\* ---- C9 ----
\* The table the whole call makes of table rs.
WholeCall(rs, npk, t) ==
    IF t.op = "save" THEN save(rs, npk, t.arg).rows ELSE delete(rs, t.arg).rows

\* C9: while a save() or delete() is in its block, and after it failed at
\* any statement, the committed table is the table before the call; the
\* committed table changes only when the block exits, to the result of the
\* whole call.
C9_Atomicity ==
    [][/\ txn'.pc # "idle" => rows' = txn'.before
       /\ rows' # rows =>
              /\ txn.pc = "exit"
              /\ rows' = WholeCall(rows, nextPk, txn)]_vars

C9_Witness ==
    /\ txn.pc = "failed"
    /\ txn.op = "save"
    /\ txn.work # txn.before
    /\ txn.self.pk \in DOMAIN txn.before
    /\ txn.work[txn.self.pk] = txn.before[txn.self.pk]
    /\ rows = txn.before

\* ---- C10 ----
\* C10: save() on an instance whose pk has no stored row writes the row with
\* the caller's values, changes no other item, and raises nothing.
C10_FallbackPlainWrite ==
    LET pre == last.rows
        X == last.self.pk
    IN  (last.op = "save" /\ X # None /\ X \notin DOMAIN pre) =>
            /\ last.branch = "fallback"
            /\ DOMAIN rows = DOMAIN pre \cup {X}
            /\ rows[X] = [routine |-> last.self.routine, priority |-> last.self.priority]
            /\ \A k \in DOMAIN pre : rows[k] = pre[k]

C10_Witness ==
    /\ last.op = "save"
    /\ last.self.pk # None
    /\ last.self.pk \notin DOMAIN last.rows
    /\ \E k \in DOMAIN last.rows :
           /\ last.rows[k].routine = last.self.routine
           /\ last.rows[k].priority = last.self.priority
           /\ rows[k] = last.rows[k]

\* ---- C11 ----
\* The recorded call is a save() of a stored item in its stored routine, with
\* a priority given that differs from the stored one.
IsSameRoutineMove(c) ==
    /\ c.op = "save"
    /\ c.self.pk \in DOMAIN c.rows
    /\ c.rows[c.self.pk].routine = c.self.routine
    /\ c.self.priority # None
    /\ c.rows[c.self.pk].priority # None
    /\ c.self.priority # c.rows[c.self.pk].priority

\* C11: a same-routine move from old to new adds 1 to exactly the other items
\* in [new, old) when new < old, takes 1 from exactly the other items in
\* (old, new] when new > old, leaves every other item, and stores the moved
\* item at new; a routine holding 1..N, with new in 1..N, still holds 1..N.
C11_SameRoutineMove ==
    LET pre == last.rows
        X == last.self.pk
        R == last.self.routine
        new == last.self.priority
        old == pre[X].priority
    IN  IsSameRoutineMove(last) =>
            /\ DOMAIN rows = DOMAIN pre
            /\ rows[X] = [routine |-> R, priority |-> new]
            /\ \A k \in DOMAIN pre \ {X} :
                /\ rows[k].routine = pre[k].routine
                /\ rows[k].priority =
                       IF pre[k].routine = R /\ new < old
                          /\ new <= pre[k].priority /\ pre[k].priority < old
                       THEN pre[k].priority + 1
                       ELSE IF pre[k].routine = R /\ new > old
                               /\ old < pre[k].priority /\ pre[k].priority <= new
                       THEN pre[k].priority - 1
                       ELSE pre[k].priority
            /\ (Dense(pre, R) /\ new \in 1..Count(pre, R)) =>
                   (Dense(rows, R) /\ Count(rows, R) = Count(pre, R))

C11_Witness ==
    /\ IsSameRoutineMove(last)
    /\ Dense(last.rows, last.self.routine)
    /\ Count(last.rows, last.self.routine) = 3
    /\ last.rows[last.self.pk].priority = 3
    /\ last.self.priority = 2
    /\ \E k \in DOMAIN rows :
           k # last.self.pk /\ last.rows[k].priority = 2 /\ rows[k].priority = 3

\* ---- C12 ----
\* The recorded call is a save() of a stored item in its stored routine with
\* the priority left blank.
IsBlankUpdate(c) ==
    /\ c.op = "save"
    /\ c.self.pk \in DOMAIN c.rows
    /\ c.rows[c.self.pk].routine = c.self.routine
    /\ c.rows[c.self.pk].priority # None
    /\ c.self.priority = None

\* C12: an update with no priority in the item's own routine leaves the item
\* at the highest priority of the routine, and a routine that held 1..N
\* holds 1..N afterwards.
C12_BlankUpdateMovesToEnd ==
    LET pre == last.rows
        X == last.self.pk
        R == last.self.routine
    IN  IsBlankUpdate(last) =>
            /\ DOMAIN rows = DOMAIN pre
            /\ rows[X].routine = R
            /\ rows[X].priority = MaxPriority(rows, R)
            /\ Dense(pre, R) => Dense(rows, R)

\* ---- C13 ----
\* The recorded call is a save() of a stored item with the routine and the
\* priority the store holds for it.
IsUnchangedSave(c) ==
    /\ c.op = "save"
    /\ c.self.pk \in DOMAIN c.rows
    /\ c.rows[c.self.pk].routine = c.self.routine
    /\ c.rows[c.self.pk].priority = c.self.priority

\* C13: a save() with routine and priority equal to the stored values issues
\* no shift: every item of every routine, the saved one included, has the
\* routine and the priority it had before.
C13_CaseANoShift ==
    IsUnchangedSave(last) =>
        /\ last.branch = "plain"
        /\ DOMAIN rows = DOMAIN last.rows
        /\ \A k \in DOMAIN rows : rows[k] = last.rows[k]

C13_Witness ==
    /\ IsUnchangedSave(last)
    /\ last.self.priority = 1
    /\ Count(last.rows, last.self.routine) = 3
    /\ \E k \in DOMAIN rows : k # last.self.pk /\ rows[k].priority = 2
    /\ rows = last.rows

\* ---- C14 ----
\* The call of connection t is a create with no priority.
IsBlankCreate(t) ==
    /\ con[t].op = "save"
    /\ con[t].arg.pk = None
    /\ con[t].arg.priority = None

\* Connection t has read the maximum and has not committed.
HasReadMax(t) == IsBlankCreate(t) /\ con[t].pc \in {"write", "exit"}

\* C14: no lock on the routine is taken, so a call about to read the maximum
\* priority or its old_instance never waits for the call in flight on the
\* other connection; two creates with no priority into one routine, started
\* from the same committed table and both past their read before either
\* commits, have computed the same priority, and both commit.
C14_RaceWithoutLock ==
    /\ \A t \in Conns :
        /\ (con[t].pc \in {"create", "place"} /\ con[t].self.priority = None)
               => ENABLED RaceReadMax(t)
        /\ con[t].pc = "max_reorder" => ENABLED RaceReadMax(t)
        /\ con[t].pc = "get_old" => ENABLED RaceGetOld(t)
        /\ con[t].pc = "exit" => ENABLED RaceExit(t)
    /\ (/\ \A t \in Conns : HasReadMax(t) /\ con[t].n = 1
        /\ con[1].self.routine = con[2].self.routine)
           => con[1].self.priority = con[2].self.priority

\* Both creates have committed and their two rows share a priority in one
\* routine.
C14_Witness ==
    /\ \A t \in Conns : IsBlankCreate(t) /\ con[t].pc = "done"
    /\ con[1].self.pk # con[2].self.pk
    /\ {con[1].self.pk, con[2].self.pk} \subseteq DOMAIN rows
    /\ rows[con[1].self.pk] = rows[con[2].self.pk]
    /\ ~Unique(rows, con[1].self.routine)

\* ---- C15 ----
\* C15: delete() on an instance kept in memory while sibling requests ran
\* closes the gap at the priority the store holds for the item: a routine
\* that held 1..N holds exactly 1..N-1, each once, after the delete.
C15_DeleteClosesStoredGap ==
    LET pre == last.rows
        X == last.self.pk
        R == pre[X].routine
    IN  (/\ last.op = "delete"
         /\ last.by = "held"
         /\ X \in DOMAIN pre
         /\ Dense(pre, R)) =>
            /\ DOMAIN rows = DOMAIN pre \ {X}
            /\ Count(rows, R) = Count(pre, R) - 1
            /\ Dense(rows, R)
            /\ Unique(rows, R)

\* ---- C16 ----
\* C16: save() of a kept instance whose routine and priority the caller did
\* not set leaves every item of the routine at the rank it had, also when
\* sibling requests have shifted the item's stored priority since the
\* instance was loaded.
C16_UnalteredSaveKeepsOrder ==
    [][(/\ last'.op = "save"
        /\ last'.by = "held"
        /\ last'.self = held
        /\ held.pk \in DOMAIN rows
        /\ rows[held.pk].routine = held.routine
        /\ held.priority # None)
       => /\ ItemsOf(rows', held.routine) = ItemsOf(rows, held.routine)
          /\ SameOrder(rows, rows', ItemsOf(rows, held.routine))]_vars

\* ---- C17 ----
\* The item the recorded call created, saved or deleted.
Subject(c) == IF c.self.pk = None THEN nextPk - 1 ELSE c.self.pk

\* C17: across a create, a same-routine move, a cross-routine move or a
\* delete of item X, two other items that share a routine before and after
\* the call keep their order: the one with the lower priority before has
\* the lower priority after.
C17_OrderPreserved ==
    LET pre == last.rows
        X == Subject(last)
    IN  last.op \in {"save", "delete"} =>
            \A Y, Z \in (DOMAIN pre \cap DOMAIN rows) \ {X} :
                (/\ pre[Y].routine = pre[Z].routine
                 /\ rows[Y].routine = rows[Z].routine
                 /\ pre[Y].priority < pre[Z].priority)
                    => rows[Y].priority < rows[Z].priority

\* ---- C18 ----
\* C18: a save() or delete() of item X changes priorities only in the
\* routine the store holds for X and in the routine the save puts X in;
\* the items of every other routine keep their priority, and no item other
\* than X changes routine.
C18_RoutineFrame ==
    LET pre == last.rows
        X == Subject(last)
        stored == IF X \in DOMAIN pre THEN {pre[X].routine} ELSE {}
        target == IF last.op = "save" THEN {last.self.routine} ELSE {}
    IN  last.op \in {"save", "delete"} =>
            \A k \in DOMAIN pre \ {X} :
                /\ k \in DOMAIN rows
                /\ rows[k].routine = pre[k].routine
                /\ pre[k].routine \notin (stored \cup target)
                       => rows[k].priority = pre[k].priority

====
